---- MODULE Spec2Model ----
(***************************************************************************)
(* Game-analysis pipeline of the Chess Learning Coach (src/app.py):        *)
(* analyze_position, classify_move, analyze_game_with_teaching and the     *)
(* "Analyze" page handler that stores the outcome in the session.          *)
(*                                                                         *)
(* Evaluations are kept in centipawns (integers): the value v stands for   *)
(* the Python float v/100.0 that the code stores.  The product             *)
(* (eval_before - eval_after) * 100 is a float; it is modelled by the      *)
(* exact integer difference d together with the sign j of the IEEE-754     *)
(* rounding error of that expression (FloatErr).                           *)
(***************************************************************************)
EXTENDS Integers, Sequences, FiniteSets, TLC

\* ---------------------------------------------------------------- bounds
MaxPlies == 2        \* longest game that is analysed
MaxFail  == 1        \* engine calls that may raise during one analysis
MaxMoves == 14       \* longest move list handed to detect_opening directly
MaxRecs  == 3        \* longest record sequence handed to the aggregator directly
MaxBoardPlies == 5   \* moves played on the board handed to the motif detector
MaxLongGame == 32    \* longest game whose records are bucketed by phase
MaxSharedPlies == 2  \* longest game analysed by a session sharing the engine
MaxClicks == 2       \* presses of the Analyze button in one browser session

\* ------------------------------------------------------------ vocabulary
None  == "None"
WHITE == TRUE        \* chess.WHITE
BLACK == FALSE       \* chess.BLACK

\* Main lines the analysed games are prefixes of (SAN tokens).
Lines == { <<"e4", "c5", "Nf3">>, <<"d4", "d5">> }

\* Text that MOVETEXT skips: a PGN holding only this has no move.
Garbage == "garbage"

Prefix(s, n) == SubSeq(s, 1, n)

\* White space only: read_game finds no game in it.
Blank == " "

\* PGN texts typed into the page: blank text, garbage text, and games of
\* 1..MaxPlies plies.  (The handler ignores a click while the text is the
\* empty string, so the empty string never reaches the analyzer.)
Pgns ==
  { <<Blank>>, <<Garbage>> } \cup
  UNION { { Prefix(l, n) : n \in { k \in 1..MaxPlies : k <= Len(l) } } :
          l \in Lines }

\* Centipawn scores the engine can report for a position (White-relative
\* truth of the position).
CpValues == { -900, -30, 0, 30, 300 }

\* What the engine knows about a position, from White's point of view:
\* a centipawn score, or a forced mate (v = signed mate distance).
Truths ==
  [ mate : {FALSE}, v : CpValues ] \cup [ mate : {TRUE}, v : {1} ]

\* Another legal move than the one played, as the engine's first choice.
OtherMove == "a3"

\* Every answer of an engine call: it raised, or it names a first choice.
AllReplies ==
  { [ ok |-> FALSE, best |-> None ] } \cup
  [ ok : {TRUE},
    best : UNION { { l[i] : i \in 1..Len(l) } : l \in Lines } \cup { OtherMove } ]

\* OPENING_DATABASE in insertion order: the key as move tokens, and the name
\* of the entry.
OPENING_DATABASE ==
  << [ key |-> <<"e4", "e5", "Nf3", "Nc6", "Bb5">>,
       name |-> "Ruy Lopez (Spanish Opening)" ],
     [ key |-> <<"e4", "c5">>, name |-> "Sicilian Defense" ],
     [ key |-> <<"e4", "e5", "Nf3", "Nc6", "Bc4">>, name |-> "Italian Game" ],
     [ key |-> <<"d4", "d5", "c4">>, name |-> "Queen's Gambit" ],
     [ key |-> <<"d4", "Nf6", "c4", "e6">>, name |-> "Nimzo-Indian Defense" ],
     [ key |-> <<"e4", "e6">>, name |-> "French Defense" ],
     [ key |-> <<"e4", "c6">>, name |-> "Caro-Kann Defense" ],
     [ key |-> <<"Nf3", "d5", "c4">>, name |-> "Reti Opening" ],
     [ key |-> <<"c4">>, name |-> "English Opening" ] >>

\* Keys of OPENING_DATABASE.
OpeningKeys == { OPENING_DATABASE[i].key : i \in 1..Len(OPENING_DATABASE) }

\* The characters of a move token.
Chars(tok) ==
  CASE tok = "e4"  -> <<"e", "4">>
    [] tok = "e5" -> <<"e", "5">>
    [] tok = "e6" -> <<"e", "6">>
    [] tok = "c4" -> <<"c", "4">>
    [] tok = "c5" -> <<"c", "5">>
    [] tok = "c6" -> <<"c", "6">>
    [] tok = "d4" -> <<"d", "4">>
    [] tok = "d5" -> <<"d", "5">>
    [] tok = "Nf3" -> <<"N", "f", "3">>
    [] tok = "Nf6" -> <<"N", "f", "6">>
    [] tok = "Nc6" -> <<"N", "c", "6">>
    [] tok = "Bb5" -> <<"B", "b", "5">>
    [] tok = "Bc4" -> <<"B", "c", "4">>
    [] tok = "a6" -> <<"a", "6">>
    [] tok = "Ba4" -> <<"B", "a", "4">>
    [] tok = "O-O" -> <<"O", "-", "O">>
    [] tok = "Be7" -> <<"B", "e", "7">>
    [] tok = "Re1" -> <<"R", "e", "1">>
    [] tok = "b5" -> <<"b", "5">>
    [] tok = "Bb3" -> <<"B", "b", "3">>
    [] tok = "d6" -> <<"d", "6">>
    [] tok = "c3" -> <<"c", "3">>
    [] tok = "d3" -> <<"d", "3">>
    [] tok = "Bd6" -> <<"B", "d", "6">>
    [] tok = "Nc3" -> <<"N", "c", "3">>
    [] tok = "h6" -> <<"h", "6">>
    [] tok = "h3" -> <<"h", "3">>
    [] tok = "Be6" -> <<"B", "e", "6">>
    [] tok = "g3" -> <<"g", "3">>
    [] tok = "g6" -> <<"g", "6">>
    [] tok = "Bg2" -> <<"B", "g", "2">>
    [] tok = "Bg7" -> <<"B", "g", "7">>
    [] tok = "Nge2" -> <<"N", "g", "e", "2">>
    [] tok = "Nge7" -> <<"N", "g", "e", "7">>
    [] tok = "Be3" -> <<"B", "e", "3">>
    [] tok = "Nd7" -> <<"N", "d", "7">>
    [] tok = "Bd3" -> <<"B", "d", "3">>
    [] tok = "e3" -> <<"e", "3">>
    [] tok = "b3" -> <<"b", "3">>
    [] tok = "b6" -> <<"b", "6">>
    [] tok = "Bb2" -> <<"B", "b", "2">>
    [] tok = "Bb7" -> <<"B", "b", "7">>
    [] tok = "Nbd2" -> <<"N", "b", "d", "2">>
    [] tok = "Qc2" -> <<"Q", "c", "2">>
    [] tok = "a5" -> <<"a", "5">>
    [] tok = "Nbd7" -> <<"N", "b", "d", "7">>
    [] tok = "Qc7" -> <<"Q", "c", "7">>
    [] tok = "Be2" -> <<"B", "e", "2">>
    [] tok = "Bc5" -> <<"B", "c", "5">>
    [] tok = "Ba7" -> <<"B", "a", "7">>
    [] OTHER       -> << tok >>

\* ' '.join(toks), as a sequence of characters.
RECURSIVE Join(_)
Join(toks) ==
  IF Len(toks) = 0 THEN <<>>
  ELSE IF Len(toks) = 1 THEN Chars(toks[1])
  ELSE Chars(toks[1]) \o <<" ">> \o Join(Tail(toks))

\* pattern in text, for strings as sequences of characters.
Contains(text, pattern) ==
  \E i \in 0..(Len(text) - Len(pattern)) :
    SubSeq(text, i + 1, i + Len(pattern)) = pattern

\* Plies of the game that detect_opening joins and searches.
EarlyWindow == 12

\* moves_list[:n]
Take(s, n) == IF Len(s) <= n THEN s ELSE SubSeq(s, 1, n)

\* The scan of detect_opening over the first n entries of the table: the
\* longest pattern found in move_string so far, the first one among equals
\* (index into the table, 0 for none).
RECURSIVE BestMatch(_, _)
BestMatch(move_string, n) ==
  IF n = 0 THEN 0
  ELSE LET prev == BestMatch(move_string, n - 1)
           pattern == Join(OPENING_DATABASE[n].key)
           max_match_length ==
             IF prev = 0 THEN 0 ELSE Len(Join(OPENING_DATABASE[prev].key))
       IN  IF Contains(move_string, pattern) /\ Len(pattern) > max_match_length
           THEN n ELSE prev

\* The name of the entry stored under a key.
NameOf(key) ==
  LET i == CHOOSE j \in 1..Len(OPENING_DATABASE) : OPENING_DATABASE[j].key = key
  IN  OPENING_DATABASE[i].name

\* detect_opening searching the whole game instead of its first plies.
detect_opening_nowindow(moves_list) ==
  LET move_string == Join(moves_list)
      best_match == BestMatch(move_string, Len(OPENING_DATABASE))
      n == Len(moves_list)
      window == IF n < 3 THEN <<>> ELSE SubSeq(moves_list, 3, IF n < 6 THEN n ELSE 6)
      InWindow(tok) == \E i \in 1..Len(window) : window[i] = tok
  IN  IF best_match # 0 THEN OPENING_DATABASE[best_match].name
      ELSE IF n = 0 THEN "Unknown Opening"
      ELSE IF moves_list[1] = "e4" THEN
        IF n > 1 THEN
          IF moves_list[2] = "e5" THEN
            IF n > 4 /\ InWindow("Bb5")
              THEN NameOf(<<"e4", "e5", "Nf3", "Nc6", "Bb5">>)
            ELSE IF n > 4 /\ InWindow("Bc4")
              THEN NameOf(<<"e4", "e5", "Nf3", "Nc6", "Bc4">>)
            ELSE "Open Game"
          ELSE IF moves_list[2] = "c5" THEN NameOf(<<"e4", "c5">>)
          ELSE IF moves_list[2] = "e6" THEN NameOf(<<"e4", "e6">>)
          ELSE IF moves_list[2] = "c6" THEN NameOf(<<"e4", "c6">>)
          ELSE "Unknown Opening"
        ELSE "Unknown Opening"
      ELSE IF moves_list[1] = "d4" THEN
        IF n > 2 /\ moves_list[2] = "d5" /\ moves_list[3] = "c4"
          THEN NameOf(<<"d4", "d5", "c4">>)
        ELSE IF n > 3 /\ moves_list[2] = "Nf6" /\ moves_list[3] = "c4"
                /\ moves_list[4] = "e6"
          THEN NameOf(<<"d4", "Nf6", "c4", "e6">>)
        ELSE "Queen's Pawn Opening"
      ELSE IF moves_list[1] = "c4" THEN NameOf(<<"c4">>)
      ELSE IF moves_list[1] = "Nf3" THEN NameOf(<<"Nf3", "d5", "c4">>)
      ELSE "Unknown Opening"

\* detect_opening without the fallback rules on the first moves.
detect_opening_nofallback(moves_list) ==
  LET move_string == Join(Take(moves_list, EarlyWindow))
      best_match == BestMatch(move_string, Len(OPENING_DATABASE))
  IN  IF best_match # 0 THEN OPENING_DATABASE[best_match].name
      ELSE "Unknown Opening"

\* detect_opening: the name of the record it returns.
detect_opening(moves_list) ==
  LET move_string == Join(Take(moves_list, EarlyWindow))
      best_match == BestMatch(move_string, Len(OPENING_DATABASE))
      n == Len(moves_list)
      window == IF n < 3 THEN <<>> ELSE SubSeq(moves_list, 3, IF n < 6 THEN n ELSE 6)
      InWindow(tok) == \E i \in 1..Len(window) : window[i] = tok
  IN  IF best_match # 0 THEN OPENING_DATABASE[best_match].name
      ELSE IF n = 0 THEN "Unknown Opening"
      ELSE IF moves_list[1] = "e4" THEN
        IF n > 1 THEN
          IF moves_list[2] = "e5" THEN
            IF n > 4 /\ InWindow("Bb5")
              THEN NameOf(<<"e4", "e5", "Nf3", "Nc6", "Bb5">>)
            ELSE IF n > 4 /\ InWindow("Bc4")
              THEN NameOf(<<"e4", "e5", "Nf3", "Nc6", "Bc4">>)
            ELSE "Open Game"
          ELSE IF moves_list[2] = "c5" THEN NameOf(<<"e4", "c5">>)
          ELSE IF moves_list[2] = "e6" THEN NameOf(<<"e4", "e6">>)
          ELSE IF moves_list[2] = "c6" THEN NameOf(<<"e4", "c6">>)
          ELSE "Unknown Opening"
        ELSE "Unknown Opening"
      ELSE IF moves_list[1] = "d4" THEN
        IF n > 2 /\ moves_list[2] = "d5" /\ moves_list[3] = "c4"
          THEN NameOf(<<"d4", "d5", "c4">>)
        ELSE IF n > 3 /\ moves_list[2] = "Nf6" /\ moves_list[3] = "c4"
                /\ moves_list[4] = "e6"
          THEN NameOf(<<"d4", "Nf6", "c4", "e6">>)
        ELSE "Queen's Pawn Opening"
      ELSE IF moves_list[1] = "c4" THEN NameOf(<<"c4">>)
      ELSE IF moves_list[1] = "Nf3" THEN NameOf(<<"Nf3", "d5", "c4">>)
      ELSE "Unknown Opening"

\* Games whose move lists are handed to detect_opening directly.
OpeningGames ==
  { << "e4", "e5", "Nf3", "Nc6", "Bb5", "a6", "Ba4", "Nf6", "O-O", "Be7", "Re1", "b5", "Bb3", "d6", "c3", "O-O" >>,
    << "e4", "e5", "Bc4", "Nf6", "d3", "c6", "Nf3", "d5", "Bb3", "Bd6", "Nc3", "O-O", "O-O", "h6", "h3", "Be6" >>,
    << "c4", "e5", "e4", "c5", "Nc3", "Nc6", "g3", "g6", "Bg2", "Bg7", "d3", "d6", "Nge2", "Nge7", "O-O", "O-O" >>,
    << "d4", "d5", "Nf3", "e6", "e4", "c5", "c3", "Nc6", "Be3", "Nf6", "e5", "Nd7", "Bd3", "Be7", "O-O", "O-O" >>,
    << "d4", "d5", "Nf3", "Nf6", "e3", "e6", "Bd3", "Bd6", "O-O", "O-O", "b3", "b6", "c4", "c5", "Bb2", "Bb7" >>,
    << "Nf3", "Nf6", "g3", "g6", "Bg2", "Bg7", "O-O", "O-O", "d3", "d6", "e4", "c5", "Nc3", "Nc6", "h3", "h6" >>,
    << "g3", "d5", "Bg2", "Nf6", "Nf3", "g6", "O-O", "Bg7", "d3", "O-O", "Nbd2", "Nc6", "c3", "e5", "Qc2", "a5" >>,
    << "e4", "e5", "Nf3", "Nf6", "Bb5", "c6", "Ba4", "d6", "O-O", "Be7", "Re1", "O-O", "c3", "Nbd7", "d4", "Qc7" >>,
    << "e4", "c5", "d4", "d5", "c4", "e6", "Nc3", "Nf6", "Nf3", "Nc6", "Be3", "Be7", "Be2", "O-O", "O-O", "b6" >>,
    << "e4", "e5", "Nf3", "Nc6", "Bc4", "Bc5", "c3", "Nf6", "d3", "d6", "O-O", "O-O", "Re1", "a6", "Bb3", "Ba7" >> }

\* ------------------------------------------------------------------ state
VARIABLES
  engine,         \* st.session_state.engine: None or a running engine
  pc,             \* position of the Analyze handler
  moves,          \* game.mainline_moves() of the parsed game
  total_moves,    \* len(list(game.mainline_moves()))
  idx,            \* loop index of enumerate(game.mainline_moves())
  move_number,    \* 1-based ply counter kept by the loop
  turn,           \* board.turn of the replayed board
  truth,          \* what the engine knows about the current position
  eval_before,    \* result of the call before the move of the current ply
  analysis,       \* records appended so far
  move_list,      \* SAN of the moves replayed so far
  board,          \* the pieces of the replayed board
  tactical_motifs, \* one entry per move the detector tagged
  progress,       \* values handed to progress_callback, as <<k, n>> for k/n
  ncalls,         \* engine.analyse calls made so far
  nfail,          \* engine.analyse calls that raised so far
  hist,           \* per ply: what the engine knew and which calls raised
  ret,            \* what analyze_game_with_teaching returned
  game_analysis,  \* st.session_state.game_analysis
  games_analyzed, \* st.session_state.user_profile['games_analyzed']
  opening_analysis, \* st.session_state.opening_analysis (name; "" when empty)
  acpl_data,      \* st.session_state.acpl_data (<<>> while not set)
  game_pgn,       \* st.session_state.game_pgn
  performance_metrics, \* st.session_state.performance_metrics (<<>>: not set)
  session_tactical_motifs, \* st.session_state.tactical_motifs
  total_tactics_found, \* st.session_state.user_profile['total_tactics_found']
  calls,          \* the analyze_position calls made so far, in order
  ui,             \* what the page shows after the handler
  outcomes,       \* st.success / st.error shown by the handler, press by press
  pgn_input,      \* the text in the PGN box when Analyze was pressed
  cin,            \* arguments of the latest direct classify_move call
  cout,           \* its result
  oin,            \* moves_list of the latest direct detect_opening call
  oout,           \* the name of the record it returned
  ain,            \* the records handed to the aggregator directly
  aout,           \* the figures it computed from them
  mboard,         \* the board handed to detect_tactical_motif directly
  mturn,          \* its side to move
  mprev,          \* previous_board: the board before the latest move
  mmove,          \* the latest move (<<>> before the first)
  mply,           \* moves played on mboard
  mout,           \* the motifs detect_tactical_motif returned for it
  spc,            \* per browser session: where its script thread stands
  sleft           \* per browser session: analyze_position calls still to make

vars ==
  << engine, pc, moves, total_moves, idx, move_number, turn, truth,
     eval_before, analysis, move_list, progress, ncalls, nfail, hist, ret,
     game_analysis, games_analyzed, opening_analysis, acpl_data, game_pgn,
     performance_metrics, session_tactical_motifs, total_tactics_found,
     board, tactical_motifs, calls, ui, outcomes, pgn_input, cin, cout, oin,
     oout,
     ain, aout, mboard, mturn, mprev, mmove, mply, mout, spc, sleft >>

\* What the Analyze handler stores in the session.
svars ==
  << game_analysis, games_analyzed, opening_analysis, acpl_data, game_pgn,
     performance_metrics, session_tactical_motifs, total_tactics_found >>

\* The variables of the direct classifier calls.
cvars == << cin, cout >>

\* The variables of the direct opening-matcher calls.
ovars == << oin, oout >>

\* The variables of the direct aggregator calls.
gvars == << ain, aout >>

\* The variables of the direct motif-detector calls.
mvars == << mboard, mturn, mprev, mmove, mply, mout >>

\* The variables of the sessions sharing the cached engine.
shvars == << spc, sleft >>

\* The variables of the Analyze handler.
avars ==
  << engine, pc, moves, total_moves, idx, move_number, turn, truth,
     eval_before, analysis, move_list, progress, ncalls, nfail, hist, ret,
     game_analysis, games_analyzed, opening_analysis, acpl_data, game_pgn,
     performance_metrics, session_tactical_motifs, total_tactics_found,
     board, tactical_motifs, calls, ui, outcomes, pgn_input >>

\* Browser sessions of the one server process: each runs the script in a
\* thread of its own, and initialize_engine, cached for the process, hands
\* every session the same engine.
Sessions == { "s1", "s2" }

\* ------------------------------------------------- Tactical Motif Detector
\* The squares of the board that the moves of the model touch.
Squares == { "c5", "c7", "d2", "d4", "d5", "d7", "e2", "e4", "f3", "g1" }

\* piece_at(square): <<>> for None, << piece >> for a piece.
Empty == <<>>

Piece(color, piece_type) == << [ color |-> color, piece_type |-> piece_type ] >>

\* The order of chess.PAWN and chess.KNIGHT.
TypeValue(piece_type) == IF piece_type = "pawn" THEN 1 ELSE 2

\* chess.Board(): the pieces of the start position on these squares.
StartBoard ==
  [ sq \in Squares |->
      IF sq \in { "d2", "e2" } THEN Piece(WHITE, "pawn")
      ELSE IF sq = "g1" THEN Piece(WHITE, "knight")
      ELSE IF sq \in { "c7", "d7" } THEN Piece(BLACK, "pawn")
      ELSE Empty ]

Move(from_square, to_square) ==
  [ from_square |-> from_square, to_square |-> to_square ]

\* The moves between these squares: pawn advances, pawn captures and
\* knight moves.
PawnAdvances ==
  { Move("e2", "e4"), Move("d2", "d4"), Move("c7", "c5"), Move("d7", "d5") }

PawnCaptures ==
  { Move("e4", "d5"), Move("d4", "c5"), Move("d5", "e4"), Move("c5", "d4") }

KnightMoves == { Move("g1", "f3"), Move("f3", "d4"), Move("d4", "f3") }

BoardMoves == PawnAdvances \cup PawnCaptures \cup KnightMoves

\* The move is legal for the side to move (no move of these positions
\* leaves a king in check: the kings stand elsewhere).
IsLegal(pieces, side, move) ==
  LET from_piece == pieces[move.from_square]
      to_piece   == pieces[move.to_square]
  IN  /\ from_piece # Empty
      /\ from_piece[1].color = side
      /\ \/ /\ move \in PawnAdvances
            /\ from_piece[1].piece_type = "pawn"
            /\ to_piece = Empty
         \/ /\ move \in PawnCaptures
            /\ from_piece[1].piece_type = "pawn"
            /\ to_piece # Empty
            /\ to_piece[1].color # side
         \/ /\ move \in KnightMoves
            /\ from_piece[1].piece_type = "knight"
            /\ to_piece # Empty => to_piece[1].color # side

\* board.push(move) on the pieces.
push(pieces, move) ==
  [ pieces EXCEPT ![move.to_square] = pieces[move.from_square],
                  ![move.from_square] = Empty ]

\* chess.Board.is_capture(move) of the board it is asked of: one of the
\* two squares of the move holds a piece of the side that is not to move.
\* (En passant aside: none of these moves is one.)
is_capture(pieces, side, move) ==
  \E sq \in { move.from_square, move.to_square } :
    /\ pieces[sq] # Empty
    /\ pieces[sq][1].color # side

\* detect_tactical_motif(board, move, previous_board) for the board after
\* the move (pieces, side to move): the capture tags.  (The tags that
\* need the attacks of the position, from check to back_rank, are left
\* out: none of them removes a tag.)
detect_tactical_motif(pieces, side, move, previous_pieces) ==
  LET from_piece == previous_pieces[move.from_square]
      to_piece   == previous_pieces[move.to_square]
  IN  IF from_piece = Empty THEN <<>>
      ELSE IF is_capture(pieces, side, move)
      THEN << "capture" >> \o
           (IF to_piece = Empty THEN <<>>
            ELSE IF TypeValue(from_piece[1].piece_type)
                      < TypeValue(to_piece[1].piece_type)
            THEN << "winning_capture" >>
            ELSE IF from_piece[1].piece_type = to_piece[1].piece_type
            THEN << "exchange" >>
            ELSE <<>>)
      ELSE <<>>

\* ------------------------------------------------------ Position Evaluator
\* The placeholder returned without an engine and when the call raises.
\* (mate_in is <<>> for None and <<n>> for a mate distance n.)
Neutral == [ evaluation |-> 0, best_move |-> None, mate_in |-> <<>> ]

\* main_info['score'].relative: the score from the side to move's view.
Relative(t, side) ==
  IF side = WHITE THEN t ELSE [ mate |-> t.mate, v |-> 0 - t.v ]

\* score.score() is None for a mate score, so a mate is reported as 0;
\* otherwise score.score(mate_score=10000) / 100.0, kept in centipawns.
ScoreToEval(score) == IF score.mate THEN 0 ELSE score.v

\* What the engine answers when asked: it may raise, else it names its
\* first choice (the played move or another one).
Replies(played) ==
  { [ ok |-> FALSE, best |-> None ] } \cup
  [ ok : {TRUE}, best : { played, OtherMove } ]

\* analyze_position without the check for a missing engine.
analyze_position_noguard(eng, side, t, reply) ==
  LET score == Relative(t, side)
  IN  IF eng # None /\ ~reply.ok THEN Neutral
      ELSE [ evaluation |-> ScoreToEval(score),
             best_move  |-> reply.best,
             mate_in    |-> IF score.mate THEN << score.v >> ELSE <<>> ]

\* analyze_position whose exception handler reports the mate score instead
\* of the neutral evaluation.
analyze_position_badfallback(eng, side, t, reply) ==
  IF eng = None THEN Neutral
  ELSE IF ~reply.ok
  THEN [ evaluation |-> 10000, best_move |-> None, mate_in |-> <<>> ]
  ELSE LET score == Relative(t, side)
       IN  [ evaluation |-> ScoreToEval(score),
             best_move  |-> reply.best,
             mate_in    |-> IF score.mate THEN << score.v >> ELSE <<>> ]

analyze_position(eng, side, t, reply) ==
  IF eng = None THEN Neutral
  ELSE IF ~reply.ok THEN Neutral
  ELSE LET score == Relative(t, side)
       IN  [ evaluation |-> ScoreToEval(score),
             best_move  |-> reply.best,
             mate_in    |-> IF score.mate THEN << score.v >> ELSE <<>> ]

\* --------------------------------------------------------- Move Classifier
\* Pairs of evaluations one centipawn apart handed to classify_move.
NearPairs == { << 301, 300 >>, << 300, 301 >>, << 30, 29 >>, << 29, 30 >> }

\* Sign of the rounding error of the float (b/100.0 - a/100.0) * 100
\* against the exact b - a, for the scores of CpValues, the pairs of
\* NearPairs and their negations: 8.7 is computed as 869.9999999999999,
\* 9.3 as 930.0000000000001, 3.01 - 3.0 as 0.9999999999999787 and
\* 0.3 - 0.29 as 1.0000000000000009.
FloatErr(b, a) ==
  LET d == b - a
      mixed == ({b, 0 - b} = {30, -30} /\ {a, 0 - a} = {900, -900})
            \/ ({b, 0 - b} = {900, -900} /\ {a, 0 - a} = {30, -30})
  IN  IF {b, 0 - b, a, 0 - a} = {300, -300, 301, -301} THEN 0 - d
      ELSE IF {b, 0 - b, a, 0 - a} = {29, -29, 30, -30} THEN d
      ELSE IF ~mixed THEN 0
      ELSE IF d = 870 THEN -1
      ELSE IF d = -870 THEN 1
      ELSE IF d = 930 THEN 1
      ELSE -1

\* centipawn_loss = (eval_before - eval_after) * 100, a float.
FloatLoss(b, a) == [ d |-> b - a, j |-> FloatErr(b, a) ]

\* centipawn_loss < n for an integer n.
Lt(loss, n) == loss.d < n \/ (loss.d = n /\ loss.j < 0)

\* int(centipawn_loss): truncation toward zero.
TruncInt(loss) ==
  IF loss.d > 0 /\ loss.j < 0 THEN loss.d - 1
  ELSE IF loss.d < 0 /\ loss.j > 0 THEN loss.d + 1
  ELSE loss.d

\* The loss classify_move works with: both evaluations negated for Black.
centipawn_loss(eb, ea, player_color) ==
  IF player_color = BLACK THEN FloatLoss(0 - eb, 0 - ea) ELSE FloatLoss(eb, ea)

\* classify_move reporting the loss before the colour normalisation.
classify_move_rawloss(eb, ea, is_best_move, player_color) ==
  LET loss == centipawn_loss(eb, ea, player_color)
      type ==
        IF Lt(loss, -50) /\ ~is_best_move THEN "brilliant"
        ELSE IF is_best_move \/ Lt(loss, 10) THEN "best"
        ELSE IF Lt(loss, 50) THEN "good"
        ELSE IF Lt(loss, 100) THEN "inaccuracy"
        ELSE IF Lt(loss, 300) THEN "mistake"
        ELSE "blunder"
  IN  [ type |-> type, cp_loss |-> TruncInt(FloatLoss(eb, ea)) ]

\* classify_move with a 'great' band for strong moves that are not the
\* engine's choice.
classify_move_great(eb, ea, is_best_move, player_color) ==
  LET loss == centipawn_loss(eb, ea, player_color)
      type ==
        IF Lt(loss, -50) /\ ~is_best_move THEN "brilliant"
        ELSE IF ~is_best_move /\ ~Lt(loss, 0) /\ Lt(loss, 15) THEN "great"
        ELSE IF is_best_move \/ Lt(loss, 10) THEN "best"
        ELSE IF Lt(loss, 50) THEN "good"
        ELSE IF Lt(loss, 100) THEN "inaccuracy"
        ELSE IF Lt(loss, 300) THEN "mistake"
        ELSE "blunder"
  IN  [ type |-> type, cp_loss |-> TruncInt(loss) ]

\* classify_move whose brilliant rule does not ask whether the move is the
\* engine's choice.
classify_move_anybrilliant(eb, ea, is_best_move, player_color) ==
  LET loss == centipawn_loss(eb, ea, player_color)
      type ==
        IF Lt(loss, -50) THEN "brilliant"
        ELSE IF is_best_move \/ Lt(loss, 10) THEN "best"
        ELSE IF Lt(loss, 50) THEN "good"
        ELSE IF Lt(loss, 100) THEN "inaccuracy"
        ELSE IF Lt(loss, 300) THEN "mistake"
        ELSE "blunder"
  IN  [ type |-> type, cp_loss |-> TruncInt(loss) ]

\* classify_move calling a gain of 20 centipawns or more brilliant.
classify_move_gain20(eb, ea, is_best_move, player_color) ==
  LET loss == centipawn_loss(eb, ea, player_color)
      type ==
        IF Lt(loss, -19) /\ ~is_best_move THEN "brilliant"
        ELSE IF is_best_move \/ Lt(loss, 10) THEN "best"
        ELSE IF Lt(loss, 50) THEN "good"
        ELSE IF Lt(loss, 100) THEN "inaccuracy"
        ELSE IF Lt(loss, 300) THEN "mistake"
        ELSE "blunder"
  IN  [ type |-> type, cp_loss |-> TruncInt(loss) ]

\* classify_move with the blunder band starting at 200 centipawns.
classify_move_blunder200(eb, ea, is_best_move, player_color) ==
  LET loss == centipawn_loss(eb, ea, player_color)
      type ==
        IF Lt(loss, -50) /\ ~is_best_move THEN "brilliant"
        ELSE IF is_best_move \/ Lt(loss, 10) THEN "best"
        ELSE IF Lt(loss, 50) THEN "good"
        ELSE IF Lt(loss, 100) THEN "inaccuracy"
        ELSE IF Lt(loss, 200) THEN "mistake"
        ELSE "blunder"
  IN  [ type |-> type, cp_loss |-> TruncInt(loss) ]

\* classify_move rounding the loss to the nearest centipawn.
classify_move_rounded(eb, ea, is_best_move, player_color) ==
  LET loss == centipawn_loss(eb, ea, player_color)
      type ==
        IF Lt(loss, -50) /\ ~is_best_move THEN "brilliant"
        ELSE IF is_best_move \/ Lt(loss, 10) THEN "best"
        ELSE IF Lt(loss, 50) THEN "good"
        ELSE IF Lt(loss, 100) THEN "inaccuracy"
        ELSE IF Lt(loss, 300) THEN "mistake"
        ELSE "blunder"
  IN  [ type |-> type, cp_loss |-> loss.d ]

classify_move(eb, ea, is_best_move, player_color) ==
  LET loss == centipawn_loss(eb, ea, player_color)
      type ==
        IF Lt(loss, -50) /\ ~is_best_move THEN "brilliant"
        ELSE IF is_best_move \/ Lt(loss, 10) THEN "best"
        ELSE IF Lt(loss, 50) THEN "good"
        ELSE IF Lt(loss, 100) THEN "inaccuracy"
        ELSE IF Lt(loss, 300) THEN "mistake"
        ELSE "blunder"
  IN  [ type |-> type, cp_loss |-> TruncInt(loss) ]

\* ------------------------------------------------------------ Game Analyzer
\* chess.pgn.read_game: no game in blank text; otherwise a game whose
\* mainline holds the move tokens of the text (other text is skipped).
IsMove(tok) == tok # Garbage /\ tok # Blank

read_game(pgn) ==
  IF \A i \in 1..Len(pgn) : pgn[i] = Blank
  THEN [ found |-> FALSE, mainline |-> <<>> ]
  ELSE [ found |-> TRUE,  mainline |-> SelectSeq(pgn, IsMove) ]

\* Ply n belongs to the prefix of the game that is a key of the table.
BookPly(n) ==
  \E key \in OpeningKeys :
    /\ n <= Len(key)
    /\ Len(key) <= Len(moves)
    /\ Prefix(moves, Len(key)) = key

\* The move a SAN token of the analysed games stands for.
SanMove(tok) ==
  CASE tok = "e4"  -> Move("e2", "e4")
    [] tok = "d4"  -> Move("d2", "d4")
    [] tok = "c5"  -> Move("c7", "c5")
    [] tok = "d5"  -> Move("d7", "d5")
    [] tok = "Nf3" -> Move("g1", "f3")

\* The entry appended to tactical_motifs for a tagged move.
MotifEntry(n, move, motifs, player_color) ==
  [ move_number |-> n,
    move        |-> move,
    motifs      |-> motifs,
    player      |-> IF player_color = WHITE THEN "White" ELSE "Black" ]

\* MoveRecord with a book-move rule ahead of the evaluation rules.
MoveRecord_book(n, move, player_color, before, after, motifs) ==
  LET best_move == before.best_move
      is_best   == IF best_move # None THEN move = best_move ELSE FALSE
  IN  [ move_number    |-> n,
        move           |-> move,
        player         |-> IF player_color = WHITE THEN "White" ELSE "Black",
        eval_before    |-> before.evaluation,
        eval_after     |-> after.evaluation,
        mate_before    |-> before.mate_in,
        mate_after     |-> after.mate_in,
        best_move      |-> best_move,
        motifs         |-> motifs,
        classification |->
          IF BookPly(n) THEN [ type |-> "theory", cp_loss |-> 0 ]
          ELSE classify_move(before.evaluation, after.evaluation,
                             is_best, player_color) ]

\* MoveRecord numbered by full moves (1. e4 c5 is move 1 twice).
MoveRecord_fullmove(n, move, player_color, before, after, motifs) ==
  LET best_move == before.best_move
      is_best   == IF best_move # None THEN move = best_move ELSE FALSE
  IN  [ move_number    |-> (n + 1) \div 2,
        move           |-> move,
        player         |-> IF player_color = WHITE THEN "White" ELSE "Black",
        eval_before    |-> before.evaluation,
        eval_after     |-> after.evaluation,
        mate_before    |-> before.mate_in,
        mate_after     |-> after.mate_in,
        best_move      |-> best_move,
        motifs         |-> motifs,
        classification |-> classify_move(before.evaluation, after.evaluation,
                                         is_best, player_color) ]

\* The record appended for one ply.  (A move token stands for the move in
\* both notations, move.uci() and board.san(move).)
MoveRecord(n, move, player_color, before, after, motifs) ==
  LET best_move == before.best_move
      is_best   == IF best_move # None THEN move = best_move ELSE FALSE
  IN  [ move_number    |-> n,
        move           |-> move,
        player         |-> IF player_color = WHITE THEN "White" ELSE "Black",
        eval_before    |-> before.evaluation,
        eval_after     |-> after.evaluation,
        mate_before    |-> before.mate_in,
        mate_after     |-> after.mate_in,
        best_move      |-> best_move,
        motifs         |-> motifs,
        classification |-> classify_move(before.evaluation, after.evaluation,
                                         is_best, player_color) ]

\* Sum of the strictly positive cp_loss of a player's records.
RECURSIVE SumPositiveLoss(_, _)
SumPositiveLoss(recs, player) ==
  IF recs = <<>> THEN 0
  ELSE LET m == Head(recs)
           loss == m.classification.cp_loss
       IN  (IF m.player = player /\ loss > 0 THEN loss ELSE 0)
           + SumPositiveLoss(Tail(recs), player)

\* Number of a player's records.
CountMoves(recs, player) ==
  Cardinality({ i \in 1..Len(recs) : recs[i].player = player })

\* The average taken over the losing moves only.
acpl_losingonly(recs, player) ==
  LET n == Cardinality({ i \in 1..Len(recs) :
                           /\ recs[i].player = player
                           /\ recs[i].classification.cp_loss > 0 })
  IN  [ num |-> SumPositiveLoss(recs, player),
        den |-> IF n > 1 THEN n ELSE 1 ]

\* A player's average centipawn loss, as the fraction num / den.
acpl(recs, player) ==
  LET n == CountMoves(recs, player)
  IN  [ num |-> SumPositiveLoss(recs, player),
        den |-> IF n > 1 THEN n ELSE 1 ]

\* ------------------------------------------------------------- Aggregator
\* The grades that count as accurate.
Accurate == { "best", "good", "brilliant" }

\* Number of records of one grade.
CountType(recs, type) ==
  Cardinality({ i \in 1..Len(recs) : recs[i].classification.type = type })

\* max(n, 1) for a count n.
AtLeastOne(n) == IF n > 1 THEN n ELSE 1

\* Accuracy with the inaccuracies counted as accurate.
player_accuracy_lenient(recs, player) ==
  [ num |-> Cardinality({ i \in 1..Len(recs) :
               /\ recs[i].player = player
               /\ recs[i].classification.type \in Accurate \cup { "inaccuracy" } }),
    den |-> AtLeastOne(CountMoves(recs, player)) ]

\* A player's accuracy, as the fraction num / den of 100 (the quotient is
\* multiplied by 100 in the code).
player_accuracy(recs, player) ==
  [ num |-> Cardinality({ i \in 1..Len(recs) :
               /\ recs[i].player = player
               /\ recs[i].classification.type \in Accurate }),
    den |-> AtLeastOne(CountMoves(recs, player)) ]

\* The values of the two bars of the accuracy chart.
create_accuracy_comparison(recs) ==
  [ white_accuracy |-> player_accuracy(recs, "White"),
    black_accuracy |-> player_accuracy(recs, "Black") ]

\* The limits of the game phases, in move_number.
OpeningLimit == 10
MiddlegameLimit == 30

\* The opening bucket reaching to move_number 12.
opening_moves_upto12(recs) ==
  { i \in 1..Len(recs) : recs[i].move_number <= OpeningLimit + 2 }

\* The records of each game phase (as sets of indices).
opening_moves(recs) ==
  { i \in 1..Len(recs) : recs[i].move_number <= OpeningLimit }

middlegame_moves(recs) ==
  { i \in 1..Len(recs) : /\ OpeningLimit < recs[i].move_number
                         /\ recs[i].move_number <= MiddlegameLimit }

endgame_moves(recs) ==
  { i \in 1..Len(recs) : recs[i].move_number > MiddlegameLimit }

\* The score of a phase: the accurate share of its records, 0 without any.
phase_score(recs, bucket) ==
  IF bucket = {} THEN [ num |-> 0, den |-> 1 ]
  ELSE [ num |-> Cardinality({ i \in bucket :
                     recs[i].classification.type \in Accurate }),
         den |-> AtLeastOne(Cardinality(bucket)) ]

\* The performance metrics of the report: <<>> for the empty dict returned
\* on an empty analysis, << metrics >> otherwise.
generate_comprehensive_report(recs, motif_entries) ==
  IF recs = <<>> THEN <<>>
  ELSE LET move_stats ==
             [ brilliant  |-> CountType(recs, "brilliant"),
               best       |-> CountType(recs, "best"),
               good       |-> CountType(recs, "good"),
               inaccuracy |-> CountType(recs, "inaccuracy"),
               mistake    |-> CountType(recs, "mistake"),
               blunder    |-> CountType(recs, "blunder") ]
           total == Len(recs)
       IN  << [ accuracy |->
                  [ num |-> move_stats.brilliant + move_stats.best
                            + move_stats.good,
                    den |-> total ],
                white_accuracy |-> player_accuracy(recs, "White"),
                black_accuracy |-> player_accuracy(recs, "Black"),
                tactical_sharpness |->
                  [ num |-> move_stats.brilliant + Len(motif_entries),
                    den |-> total ],
                consistency |->
                  [ num |-> total - move_stats.blunder,
                    den |-> AtLeastOne(total) ],
                opening_score |-> phase_score(recs, opening_moves(recs)),
                middlegame_score |->
                  phase_score(recs, middlegame_moves(recs)),
                endgame_score |-> phase_score(recs, endgame_moves(recs)),
                move_stats |-> move_stats ] >>

\* The record is of a move the detector tagged.
Tagged(m) == m.motifs # <<>>

\* All the figures computed from a record sequence: the average losses of
\* the analyzer, the metrics of the report (with an entry of
\* tactical_motifs for each tagged record) and the bars of the chart.
Aggregate(recs) ==
  [ acpl_data   |-> [ white_acpl |-> acpl(recs, "White"),
                      black_acpl |-> acpl(recs, "Black") ],
    performance |-> generate_comprehensive_report(recs,
                                                  SelectSeq(recs, Tagged)),
    chart       |-> create_accuracy_comparison(recs) ]

\* --------------------------------------------------------- Analyze handler
Init ==
  /\ engine \in { None, "stockfish" }
  /\ pc = "idle"
  /\ moves = <<>>
  /\ total_moves = 0
  /\ idx = 0
  /\ move_number = 1
  /\ turn = WHITE
  /\ truth = [ mate |-> FALSE, v |-> 0 ]
  /\ eval_before = Neutral
  /\ analysis = <<>>
  /\ move_list = <<>>
  /\ progress = <<>>
  /\ ncalls = 0
  /\ nfail = 0
  /\ hist = <<>>
  /\ ret = "pending"
  /\ game_analysis = <<>>
  /\ games_analyzed = 0
  /\ opening_analysis = ""
  /\ acpl_data = <<>>
  /\ game_pgn = <<>>
  /\ performance_metrics = <<>>
  /\ session_tactical_motifs = <<>>
  /\ total_tactics_found = 0
  /\ board = StartBoard
  /\ tactical_motifs = <<>>
  /\ calls = <<>>
  /\ ui = "input"
  /\ outcomes = <<>>
  /\ pgn_input = <<>>
  /\ cin = [ eb |-> 0, ea |-> 0, best |-> FALSE, color |-> WHITE, called |-> FALSE ]
  /\ cout = [ type |-> "none", cp_loss |-> 0 ]
  /\ oin = <<>>
  /\ oout = detect_opening(<<>>)
  /\ ain = <<>>
  /\ aout = Aggregate(<<>>)
  /\ mboard = StartBoard
  /\ mturn = WHITE
  /\ mprev = StartBoard
  /\ mmove = <<>>
  /\ mply = 0
  /\ mout = <<>>
  /\ spc = [ s \in Sessions |-> "idle" ]
  /\ sleft = [ s \in Sessions |-> 0 ]

\* The Analyze button is pressed with text pgn in the box; the game is
\* parsed.  Without a game the analyzer returns None and the page reports
\* an invalid PGN; with one, the replay starts from a position the engine
\* values t0.
Analyze(pgn, t0) ==
  /\ pc = "idle"
  /\ pgn # <<>>
  /\ LET game == read_game(pgn)
     IN  IF ~game.found
         THEN /\ ret' = "null"
              /\ ui' = "invalid"
              /\ outcomes' = Append(outcomes, "error")
              /\ pc' = "done"
              /\ UNCHANGED << moves, total_moves, truth >>
         ELSE /\ moves' = game.mainline
              /\ total_moves' = Len(game.mainline)
              /\ truth' = t0
              /\ pc' = "before"
              /\ UNCHANGED << ret, ui, outcomes >>
  /\ idx' = 0
  /\ move_number' = 1
  /\ turn' = WHITE
  /\ analysis' = <<>>
  /\ move_list' = <<>>
  /\ board' = StartBoard
  /\ tactical_motifs' = <<>>
  /\ pgn_input' = pgn
  /\ UNCHANGED << engine, eval_before, progress, ncalls, nfail, hist, calls,
                  svars, cvars, ovars, gvars, mvars, shvars >>

\* Whether the engine is asked at all, and the replies it may then give.
Asked == engine # None

CallReplies(played) ==
  IF Asked
  THEN { r \in Replies(played) : ~r.ok => nfail < MaxFail }
  ELSE { [ ok |-> FALSE, best |-> None ] }

\* PlyBefore taking the evaluation after the previous move for the
\* evaluation before this one, without a call.
PlyBefore_reuse(reply) ==
  /\ pc = "before"
  /\ idx < total_moves
  /\ reply \in CallReplies(moves[idx + 1])
  /\ progress' = Append(progress, << idx + 1, total_moves >>)
  /\ IF idx = 0
     THEN /\ eval_before' = analyze_position(engine, turn, truth, reply)
          /\ calls' = Append(calls, [ ply |-> idx + 1, phase |-> "before",
                                      side |-> turn,
                                      pushed |-> Len(move_list) ])
          /\ ncalls' = IF Asked THEN ncalls + 1 ELSE ncalls
          /\ nfail' = IF Asked /\ ~reply.ok THEN nfail + 1 ELSE nfail
     ELSE /\ eval_before' =
               [ evaluation |-> analysis[idx].eval_after,
                 best_move  |-> None,
                 mate_in    |-> analysis[idx].mate_after ]
          /\ UNCHANGED << calls, ncalls, nfail >>
  /\ hist' = Append(hist, [ tb |-> truth, ta |-> truth, best |-> reply.best,
                             okB |-> reply.ok, okA |-> FALSE ])
  /\ pc' = "after"
  /\ UNCHANGED << engine, moves, total_moves, idx, move_number, turn, truth,
                  analysis, move_list, board, tactical_motifs, ret, svars,
                  ui, outcomes, pgn_input, cvars, ovars, gvars, mvars,
                  shvars >>

\* Top of one loop iteration: progress is reported, then the position
\* before the move is evaluated.
PlyBefore(reply) ==
  /\ pc = "before"
  /\ idx < total_moves
  /\ reply \in CallReplies(moves[idx + 1])
  /\ progress' = Append(progress, << idx + 1, total_moves >>)
  /\ eval_before' = analyze_position(engine, turn, truth, reply)
  /\ calls' = Append(calls, [ ply |-> idx + 1, phase |-> "before",
                              side |-> turn, pushed |-> Len(move_list) ])
  /\ ncalls' = IF Asked THEN ncalls + 1 ELSE ncalls
  /\ nfail' = IF Asked /\ ~reply.ok THEN nfail + 1 ELSE nfail
  /\ hist' = Append(hist, [ tb |-> truth, ta |-> truth, best |-> reply.best,
                             okB |-> reply.ok, okA |-> FALSE ])
  /\ pc' = "after"
  /\ UNCHANGED << engine, moves, total_moves, idx, move_number, turn, truth,
                  analysis, move_list, board, tactical_motifs, ret, svars,
                  ui, outcomes, pgn_input, cvars, ovars, gvars, mvars,
                  shvars >>

\* Rest of the iteration: the move is played, reaching a position the
\* engine values t1; that position is evaluated, the move is classified
\* and its record appended.
PlyAfter(reply, t1) ==
  /\ pc = "after"
  /\ reply \in CallReplies(OtherMove)
  /\ LET move == moves[idx + 1]
         player_color == turn
         eval_after == analyze_position(engine, ~turn, t1, reply)
         pushed == push(board, SanMove(move))
         motifs == detect_tactical_motif(pushed, ~turn, SanMove(move), board)
     IN  /\ move_list' = Append(move_list, move)
         /\ board' = pushed
         /\ tactical_motifs' =
               IF motifs # <<>>
               THEN Append(tactical_motifs,
                           MotifEntry(move_number, move, motifs, player_color))
               ELSE tactical_motifs
         /\ analysis' = Append(analysis,
               MoveRecord(move_number, move, player_color, eval_before,
                          eval_after, motifs))
  /\ calls' = Append(calls, [ ply |-> idx + 1, phase |-> "after",
                              side |-> ~turn, pushed |-> Len(move_list) + 1 ])
  /\ turn' = ~turn
  /\ truth' = t1
  /\ ncalls' = IF Asked THEN ncalls + 1 ELSE ncalls
  /\ nfail' = IF Asked /\ ~reply.ok THEN nfail + 1 ELSE nfail
  /\ hist' = [ hist EXCEPT ![Len(hist)].ta = t1, ![Len(hist)].okA = reply.ok ]
  /\ move_number' = move_number + 1
  /\ idx' = idx + 1
  /\ pc' = "before"
  /\ UNCHANGED << engine, moves, total_moves, eval_before, progress, ret,
                  svars, ui, outcomes, pgn_input, cvars, ovars, gvars, mvars,
                  shvars >>

\* Finish with the page testing the analysis against None only.
Finish_nonecheck ==
  /\ pc = "before"
  /\ idx = total_moves
  /\ ret' = "records"
  /\ game_analysis' = analysis
  /\ opening_analysis' = detect_opening(move_list)
  /\ acpl_data' = << [ white_acpl |-> acpl(analysis, "White"),
                       black_acpl |-> acpl(analysis, "Black") ] >>
  /\ game_pgn' = pgn_input
  /\ games_analyzed' = games_analyzed + 1
  /\ session_tactical_motifs' = tactical_motifs
  /\ total_tactics_found' = total_tactics_found + Len(tactical_motifs)
  /\ performance_metrics' =
       generate_comprehensive_report(analysis, tactical_motifs)
  /\ ui' = "success"
  /\ outcomes' = Append(outcomes, "success")
  /\ pc' = "done"
  /\ UNCHANGED << engine, moves, total_moves, idx, move_number, turn, truth,
                  eval_before, analysis, move_list, board, tactical_motifs,
                  progress, ncalls, nfail, hist, calls, pgn_input, cvars,
                  ovars, gvars, mvars, shvars >>

\* Finish counting the game whether or not the analysis has records.
Finish_countall ==
  /\ pc = "before"
  /\ idx = total_moves
  /\ ret' = "records"
  /\ LET opening_info == detect_opening(move_list)
         acpl_result == [ white_acpl |-> acpl(analysis, "White"),
                          black_acpl |-> acpl(analysis, "Black") ]
     IN  IF analysis # <<>>
         THEN /\ game_analysis' = analysis
              /\ opening_analysis' = opening_info
              /\ acpl_data' = << acpl_result >>
              /\ game_pgn' = pgn_input
              /\ games_analyzed' = games_analyzed + 1
              /\ session_tactical_motifs' = tactical_motifs
              /\ total_tactics_found' =
                    total_tactics_found + Len(tactical_motifs)
              /\ performance_metrics' =
                    generate_comprehensive_report(analysis, tactical_motifs)
              /\ ui' = "success"
              /\ outcomes' = Append(outcomes, "success")
         ELSE /\ ui' = "invalid"
              /\ outcomes' = Append(outcomes, "error")
              /\ games_analyzed' = games_analyzed + 1
              /\ UNCHANGED << game_analysis, opening_analysis, acpl_data,
                              game_pgn, performance_metrics,
                              session_tactical_motifs, total_tactics_found >>
  /\ pc' = "done"
  /\ UNCHANGED << engine, moves, total_moves, idx, move_number, turn, truth,
                  eval_before, analysis, move_list, board, tactical_motifs,
                  progress, ncalls, nfail, hist, calls, pgn_input, cvars,
                  ovars, gvars, mvars, shvars >>

\* After the loop the analyzer detects the opening, computes the average
\* centipawn losses and returns; the page stores a non-empty analysis with
\* them, counts the game and stores the metrics of the report, and reports
\* an invalid PGN for an empty one.
Finish ==
  /\ pc = "before"
  /\ idx = total_moves
  /\ ret' = "records"
  /\ LET opening_info == detect_opening(move_list)
         acpl_result == [ white_acpl |-> acpl(analysis, "White"),
                          black_acpl |-> acpl(analysis, "Black") ]
     IN  IF analysis # <<>>
         THEN /\ game_analysis' = analysis
              /\ opening_analysis' = opening_info
              /\ acpl_data' = << acpl_result >>
              /\ game_pgn' = pgn_input
              /\ games_analyzed' = games_analyzed + 1
              /\ session_tactical_motifs' = tactical_motifs
              /\ total_tactics_found' =
                    total_tactics_found + Len(tactical_motifs)
              /\ performance_metrics' =
                    generate_comprehensive_report(analysis, tactical_motifs)
              /\ ui' = "success"
              /\ outcomes' = Append(outcomes, "success")
         ELSE /\ ui' = "invalid"
              /\ outcomes' = Append(outcomes, "error")
              /\ UNCHANGED svars
  /\ pc' = "done"
  /\ UNCHANGED << engine, moves, total_moves, idx, move_number, turn, truth,
                  eval_before, analysis, move_list, board, tactical_motifs,
                  progress, ncalls, nfail, hist, calls, pgn_input, cvars,
                  ovars, gvars, mvars, shvars >>

Next ==
  \/ \E pgn \in Pgns, t0 \in Truths : Analyze(pgn, t0)
  \/ \E reply \in AllReplies : PlyBefore(reply)
  \/ \E reply \in AllReplies, t1 \in Truths : PlyAfter(reply, t1)
  \/ Finish

Spec == Init /\ [][Next]_vars

\* ------------------------------------------ the button pressed repeatedly
\* The page is shown and the script waits for the next press of the button:
\* the handler's locals are gone, the session state and the engine stay.
Rerun ==
  /\ pc = "done"
  /\ Len(outcomes) < MaxClicks
  /\ pc' = "idle"
  /\ moves' = <<>>
  /\ total_moves' = 0
  /\ idx' = 0
  /\ move_number' = 1
  /\ turn' = WHITE
  /\ truth' = [ mate |-> FALSE, v |-> 0 ]
  /\ eval_before' = Neutral
  /\ analysis' = <<>>
  /\ move_list' = <<>>
  /\ board' = StartBoard
  /\ tactical_motifs' = <<>>
  /\ progress' = <<>>
  /\ ncalls' = 0
  /\ nfail' = 0
  /\ hist' = <<>>
  /\ calls' = <<>>
  /\ ret' = "pending"
  /\ ui' = "input"
  /\ pgn_input' = <<>>
  /\ UNCHANGED << engine, svars, outcomes, cvars, ovars, gvars, mvars,
                  shvars >>

\* The positions of the games analysed in one session: level, or won for
\* Black.
SessionTruths == { t \in Truths : ~t.mate /\ t.v <= 0 /\ t.v # -30 }

\* The engine's answers in one session: a running engine names another
\* move than the one played; without an engine there is no answer.
SessionReplies ==
  { r \in AllReplies : IF Asked THEN r.ok /\ r.best = OtherMove ELSE ~r.ok }

NextSession ==
  \/ \E pgn \in Pgns, t0 \in SessionTruths : Analyze(pgn, t0)
  \/ \E reply \in SessionReplies : PlyBefore(reply)
  \/ \E reply \in SessionReplies, t1 \in SessionTruths : PlyAfter(reply, t1)
  \/ Finish
  \/ Rerun

SpecSession == Init /\ [][NextSession]_vars

\* ------------------------------------------- the classifier called directly
\* Evaluations (in centipawns) handed to classify_move: the scores of
\* CpValues seen from either side.
ClassifyEvals == CpValues \cup { 0 - v : v \in CpValues }

Classify(eb, ea, is_best_move, player_color) ==
  /\ cin' = [ eb |-> eb, ea |-> ea, best |-> is_best_move,
              color |-> player_color, called |-> TRUE ]
  /\ cout' = classify_move(eb, ea, is_best_move, player_color)
  /\ UNCHANGED << avars, ovars, gvars, mvars, shvars >>

NextClassify ==
  \/ \E eb \in ClassifyEvals, ea \in ClassifyEvals, b \in BOOLEAN,
        c \in { WHITE, BLACK } : Classify(eb, ea, b, c)
  \/ \E p \in NearPairs, b \in BOOLEAN, c \in { WHITE, BLACK } :
        Classify(p[1], p[2], b, c)

SpecClassify == Init /\ [][NextClassify]_vars

\* ----------------------------------------- the aggregator called directly
\* Evaluations before the move in the records handed to the aggregator.
BeforeEvals == { v \in CpValues : v >= 0 /\ v < 100 }

\* The aggregator is applied to a record sequence one record longer: the
\* players alternate, the move is graded by classify_move and tagged as
\* the detector tags a quiet move.  (A record holds the fields the
\* aggregator reads.)
AddRecord(eb, ea, is_best) ==
  /\ Len(ain) < MaxRecs
  /\ LET n == Len(ain) + 1
         player_color == IF n % 2 = 1 THEN WHITE ELSE BLACK
         rec == [ move_number    |-> n,
                  player         |-> IF player_color = WHITE THEN "White"
                                     ELSE "Black",
                  motifs         |-> << "capture" >>,
                  classification |->
                    classify_move(eb, ea, is_best, player_color) ]
     IN  /\ ain' = Append(ain, rec)
         /\ aout' = Aggregate(Append(ain, rec))
  /\ UNCHANGED << avars, cvars, ovars, mvars, shvars >>

NextAggregate ==
  \E eb \in BeforeEvals, ea \in ClassifyEvals, b \in BOOLEAN :
    AddRecord(eb, ea, b)

SpecAggregate == Init /\ [][NextAggregate]_vars

\* ------------------------------------ the aggregator applied to long games
\* The plies next to the limits of the phases (as the code and as the
\* design have them), where the grade of the move is left open.
EdgePlies ==
  { OpeningLimit, OpeningLimit + 1, OpeningLimit + 2, OpeningLimit + 3,
    MiddlegameLimit, MiddlegameLimit + 1 }

\* The aggregator is applied to the records of a long game, one more ply
\* at a time: every move is the engine's choice in a level position,
\* except that a move at one of EdgePlies may lose 900 centipawns.
AppendPly(blunder) ==
  /\ Len(ain) < MaxLongGame
  /\ blunder => Len(ain) + 1 \in EdgePlies
  /\ LET n == Len(ain) + 1
         player_color == IF n % 2 = 1 THEN WHITE ELSE BLACK
         ea == IF ~blunder THEN 0
               ELSE IF player_color = WHITE THEN -900 ELSE 900
         rec == [ move_number    |-> n,
                  player         |-> IF player_color = WHITE THEN "White"
                                     ELSE "Black",
                  motifs         |-> << "capture" >>,
                  classification |->
                    classify_move(0, ea, ~blunder, player_color) ]
     IN  /\ ain' = Append(ain, rec)
         /\ aout' = Aggregate(Append(ain, rec))
  /\ UNCHANGED << avars, cvars, ovars, mvars, shvars >>

NextPhase == \E blunder \in BOOLEAN : AppendPly(blunder)

SpecPhase == Init /\ [][NextPhase]_vars

\* ------------------------------------- sessions sharing the cached engine
\* Session s presses Analyze on a game of n plies: its thread starts the
\* ply loop, which makes 2n analyze_position calls.
SessionAnalyze(s, n) ==
  /\ spc[s] = "idle"
  /\ spc' = [ spc EXCEPT ![s] = "loop" ]
  /\ sleft' = [ sleft EXCEPT ![s] = 2 * n ]
  /\ UNCHANGED << avars, cvars, ovars, gvars, mvars >>

\* The thread of s enters analyze_position: without an engine it returns
\* the placeholder at once, with one it enters engine.analyse (nothing
\* is acquired or tested before the call).
EnterCall(s) ==
  /\ spc[s] = "loop"
  /\ sleft[s] > 0
  /\ IF engine = None
     THEN /\ sleft' = [ sleft EXCEPT ![s] = sleft[s] - 1 ]
          /\ UNCHANGED spc
     ELSE /\ spc' = [ spc EXCEPT ![s] = "analyse" ]
          /\ UNCHANGED sleft
  /\ UNCHANGED << avars, cvars, ovars, gvars, mvars >>

\* engine.analyse returns (or raises) in the thread of s.
ReturnCall(s) ==
  /\ spc[s] = "analyse"
  /\ spc' = [ spc EXCEPT ![s] = "loop" ]
  /\ sleft' = [ sleft EXCEPT ![s] = sleft[s] - 1 ]
  /\ UNCHANGED << avars, cvars, ovars, gvars, mvars >>

\* The loop of s is over and its page is rendered.
SessionDone(s) ==
  /\ spc[s] = "loop"
  /\ sleft[s] = 0
  /\ spc' = [ spc EXCEPT ![s] = "done" ]
  /\ UNCHANGED << sleft, avars, cvars, ovars, gvars, mvars >>

NextShared ==
  \E s \in Sessions :
    \/ \E n \in 1..MaxSharedPlies : SessionAnalyze(s, n)
    \/ EnterCall(s)
    \/ ReturnCall(s)
    \/ SessionDone(s)

SpecShared == Init /\ [][NextShared]_vars

\* ------------------------------------- the motif detector called directly
\* A legal move is played on the board and the detector is asked about it
\* as the analyzer asks: with the board after the move and a copy of the
\* board before it.
PlayMove(move) ==
  /\ mply < MaxBoardPlies
  /\ IsLegal(mboard, mturn, move)
  /\ mprev' = mboard
  /\ mboard' = push(mboard, move)
  /\ mturn' = ~mturn
  /\ mmove' = << move >>
  /\ mply' = mply + 1
  /\ mout' = detect_tactical_motif(push(mboard, move), ~mturn, move, mboard)
  /\ UNCHANGED << avars, cvars, ovars, gvars, shvars >>

NextMotif == \E move \in BoardMoves : PlayMove(move)

SpecMotif == Init /\ [][NextMotif]_vars

\* -------------------------------------- the opening matcher called directly
\* The matcher is called on a game one move longer than the last one.
Play(tok) ==
  /\ Len(oin) < MaxMoves
  /\ \E g \in OpeningGames :
       /\ Len(oin) < Len(g)
       /\ Prefix(g, Len(oin) + 1) = Append(oin, tok)
  /\ oin' = Append(oin, tok)
  /\ oout' = detect_opening(Append(oin, tok))
  /\ UNCHANGED << avars, cvars, gvars, mvars, shvars >>

NextOpening ==
  \E tok \in UNION { { g[i] : i \in 1..Len(g) } : g \in OpeningGames } : Play(tok)

SpecOpening == Init /\ [][NextOpening]_vars

\* ================================================================== claims
\* Helpers of the statements below.
Grades6 == { "brilliant", "best", "good", "inaccuracy", "mistake", "blunder" }
Grades9 == Grades6 \cup { "theory", "great", "excellent" }

\* The colour that plays ply k of a game replayed from the start position.
MoverOf(k) == IF k % 2 = 1 THEN WHITE ELSE BLACK

\* A White-relative centipawn value seen by the mover.
ForMover(v, color) == IF color = WHITE THEN v ELSE 0 - v

\* Both engine calls of ply k answered with a centipawn score.
ScoredPly(k) ==
  /\ engine # None
  /\ hist[k].okB /\ hist[k].okA
  /\ ~hist[k].tb.mate /\ ~hist[k].ta.mate

\* How far the position of ply k's mover got worse over the move (in
\* centipawns of the engine's White-relative truth, seen by the mover).
TrueLoss(k) ==
  ForMover(hist[k].tb.v, MoverOf(k)) - ForMover(hist[k].ta.v, MoverOf(k))

\* C1: for every ply and either colour, when the mover's position
\* objectively worsens the reported centipawn loss is strictly positive, and
\* when it improves the loss is not positive.
C1_LossSignFollowsTruth ==
  \A k \in 1..Len(analysis) :
    ScoredPly(k) =>
      /\ TrueLoss(k) > 0 => analysis[k].classification.cp_loss > 0
      /\ TrueLoss(k) < 0 => analysis[k].classification.cp_loss <= 0

\* C2: the evaluations returned by analyze_position are White-relative
\* whichever side is to move, before and after the move of one ply.
C2_EvalWhiteRelative ==
  \A k \in 1..Len(analysis) :
    ScoredPly(k) =>
      /\ analysis[k].eval_before = hist[k].tb.v
      /\ analysis[k].eval_after = hist[k].ta.v

\* C3 as stated: for every input of classify_move the reported cp_loss is
\* non-negative.
C3_LossNonNegative == cin.called => cout.cp_loss >= 0

\* C3 as amended: cp_loss is non-negative (at least 10) for the grades
\* good, inaccuracy, mistake and blunder, and at most -50 for brilliant;
\* only a move graded best can carry either sign.
C3_LossSignByGrade ==
  cin.called =>
    /\ cout.type \in { "good", "inaccuracy", "mistake", "blunder" }
         => cout.cp_loss >= 10
    /\ cout.type = "brilliant" => cout.cp_loss <= -50
    /\ cout.type = "best" /\ ~cin.best => cout.cp_loss \in -50..9

C3_BrilliantNegativeLoss ==
  cin.called /\ cout.type = "brilliant" /\ cout.cp_loss < 0

\* Every grade of the set G is produced by classify_move for some input.
AllProduced(G) ==
  \A g \in G :
    \E eb \in ClassifyEvals, ea \in ClassifyEvals, b \in BOOLEAN,
       c \in { WHITE, BLACK } : classify_move(eb, ea, b, c).type = g

GradedByEval(k) ==
  LET r == analysis[k]
  IN  classify_move(r.eval_before, r.eval_after,
                    r.best_move # None /\ r.best_move = r.move, MoverOf(k))

C7_QueenHangIsBlunder ==
  \A k \in 1..Len(analysis) :
    ( /\ ScoredPly(k)
      /\ analysis[k].best_move # analysis[k].move
      /\ TrueLoss(k) \in 870..930 )
    => analysis[k].classification.type = "blunder"

\* C8: without an engine the analysis makes no engine call and still
\* produces one record per ply; every record has evaluation 0 before and
\* after, no best move, and the same classification with loss 0.
C8_EngineUnavailable ==
  engine = None =>
    /\ ncalls = 0
    /\ pc = "before" => Len(analysis) = idx
    /\ pc = "done" /\ ret = "records" => Len(analysis) = total_moves
    /\ \A k \in 1..Len(analysis) :
         /\ analysis[k].eval_before = 0
         /\ analysis[k].eval_after = 0
         /\ analysis[k].best_move = None
         /\ analysis[k].classification = [ type |-> "best", cp_loss |-> 0 ]

C8_ReportWithoutEngine ==
  engine = None /\ pc = "done" /\ ui = "success" /\ Len(analysis) >= 2

\* What a call on a position the engine values t, with side to move, gives
\* when it is answered.
Answered(t, side) == ScoreToEval(Relative(t, side))

\* C9: an engine call that raises yields evaluation 0 and no best move;
\* the loop goes on to the last ply, and every record depends only on the
\* two calls of its own ply: a ply whose calls were answered has the record
\* of a run without failures.
C9_FailedCallIsNeutral ==
  engine # None =>
    /\ pc = "before" => Len(analysis) = idx
    /\ pc = "done" /\ ret = "records" => Len(analysis) = total_moves
    /\ \A k \in 1..Len(analysis) :
         LET r == analysis[k]
             h == hist[k]
         IN  /\ r.move_number = k
             /\ r.move = moves[k]
             /\ r.eval_before =
                  IF h.okB THEN Answered(h.tb, MoverOf(k)) ELSE 0
             /\ r.best_move = IF h.okB THEN h.best ELSE None
             /\ r.eval_after =
                  IF h.okA THEN Answered(h.ta, ~MoverOf(k)) ELSE 0
             /\ r.classification = GradedByEval(k)

C9_FailureThenScoredPly ==
  /\ pc = "done"
  /\ Len(analysis) >= 2
  /\ ~hist[1].okA
  /\ ScoredPly(2)
  /\ hist[2].tb.v # 0

\* Text without a single move.
NoMoves(pgn) == \A i \in 1..Len(pgn) : pgn[i] \in { Blank, Garbage }

\* C10: for a PGN text without a game or without moves the analyzer
\* returns no records, and the page reports an invalid PGN and stores
\* nothing.
C10_InvalidPgnRejected ==
  pc = "done" /\ NoMoves(pgn_input) =>
    /\ ret \in { "null", "records" }
    /\ analysis = <<>>
    /\ ncalls = 0
    /\ ui = "invalid"
    /\ game_analysis = <<>>
    /\ opening_analysis = ""
    /\ acpl_data = <<>>
    /\ games_analyzed = 0

C10_GarbageRejected ==
  pc = "done" /\ pgn_input = << Garbage >> /\ ret = "records" /\ ui = "invalid"

\* ------------------------------------------------------- Opening Matcher
\* key is the beginning of the move list, token by token.
IsPrefix(key, ml) == Len(key) <= Len(ml) /\ Prefix(ml, Len(key)) = key

\* The keys of the table the move list begins with.
PrefixKeys(ml) == { key \in OpeningKeys : IsPrefix(key, ml) }

\* The longest key of a non-empty set of keys.
Longest(ks) == CHOOSE k \in ks : \A j \in ks : Len(j) <= Len(k)

\* The entry the scan of detect_opening settles on (0: none).
Scanned(ml) == BestMatch(Join(Take(ml, EarlyWindow)), Len(OPENING_DATABASE))

\* C11: the matcher returns the entry with the longest key that is a prefix
\* of the game; a key that only occurs later in the game or inside another
\* move token is no match.
C11_LongestPrefixMatch ==
  /\ PrefixKeys(oin) # {} => oout = NameOf(Longest(PrefixKeys(oin)))
  /\ Scanned(oin) # 0 => OPENING_DATABASE[Scanned(oin)].key \in PrefixKeys(oin)

\* Some ply in 3..6 of the move list is tok.
InPlies3to6(ml, tok) == \E i \in 3..6 : i <= Len(ml) /\ ml[i] = tok

\* C12 as stated: whenever no key of the table matches, the matcher returns
\* the 'Unknown Opening' record.
C12_NoMatchIsUnknown == Scanned(oin) = 0 => oout = "Unknown Opening"

\* C12 as amended: whenever no key is found, the matcher falls back on the
\* first moves: e4 e5 gives the Ruy Lopez entry (five or more moves, Bb5
\* among plies 3..6) or else 'Open Game', d4 gives 'Queen's Pawn Opening',
\* Nf3 gives the Reti entry; only otherwise 'Unknown Opening'.
C12_NoMatchFallsBack ==
  Scanned(oin) = 0 =>
    oout =
      IF Len(oin) >= 2 /\ oin[1] = "e4" /\ oin[2] = "e5"
      THEN IF Len(oin) > 4 /\ InPlies3to6(oin, "Bb5")
           THEN "Ruy Lopez (Spanish Opening)" ELSE "Open Game"
      ELSE IF Len(oin) >= 1 /\ oin[1] = "d4" THEN "Queen's Pawn Opening"
      ELSE IF Len(oin) >= 1 /\ oin[1] = "Nf3" THEN "Reti Opening"
      ELSE "Unknown Opening"

C12_OpenGameReturned ==
  Scanned(oin) = 0 /\ Len(oin) >= 2 /\ oout = "Open Game"

\* C13: once the game begins with a key of the table, appending further
\* moves never changes the opening reported.
C13_StableUnderGrowth ==
  [][ PrefixKeys(oin) # {} => oout' = oout ]_vars

\* C14: the result depends only on the first 12 plies: moves appended to a
\* game of 12 or more plies never change the opening reported.
C14_OnlyEarlyWindow ==
  [][ Len(oin) >= EarlyWindow => oout' = oout ]_vars

C14_KeyPastCutoffIgnored ==
  /\ Len(oin) = EarlyWindow + 1
  /\ oin[EarlyWindow + 1] = "c4"
  /\ oout = "Queen's Pawn Opening"

\* ------------------------------------------------- claims on the aggregator
\* The grades the accuracy formula names.
AccurateNamed ==
  { "theory", "good", "excellent", "best", "great", "brilliant" }

Players == { "White", "Black" }

\* The records of one player among those handed to the aggregator.
Mine(player) == { i \in 1..Len(ain) : ain[i].player = player }

\* The accuracy reported for a player by the report and by the chart.
ReportedAccuracy(player) ==
  IF player = "White" THEN aout.performance[1].white_accuracy
  ELSE aout.performance[1].black_accuracy

ChartAccuracy(player) ==
  IF player = "White" THEN aout.chart.white_accuracy
  ELSE aout.chart.black_accuracy

\* C15: a player's accuracy, in the report and in the chart, is 100 times
\* the number of that player's moves graded theory, good, excellent,
\* best, great or brilliant over the number of that player's moves;
\* inaccuracies, mistakes and blunders are not counted, and a player
\* without moves gets 0 from a well-defined division.
C15_AccuracyFormula ==
  \A player \in Players :
    LET counted == { i \in Mine(player) :
                       ain[i].classification.type \in AccurateNamed }
        figures == { ChartAccuracy(player) } \cup
                   (IF ain = <<>> THEN {}
                    ELSE { ReportedAccuracy(player) })
    IN  \A acc \in figures :
          /\ acc.den > 0
          /\ IF Mine(player) = {} THEN acc.num = 0
             ELSE acc.num * Cardinality(Mine(player))
                    = Cardinality(counted) * acc.den
          /\ (\A i \in Mine(player) :
                 ain[i].classification.type
                   \in { "inaccuracy", "mistake", "blunder" })
             => acc.num = 0

\* C15 witness: White played an accurate move and an inaccuracy and is
\* reported at one half, that is 50%.
C15_HalfAccurate ==
  /\ Len(ain) = 3
  /\ ain[1].classification.type = "best"
  /\ ain[3].classification.type = "inaccuracy"
  /\ ReportedAccuracy("White") = [ num |-> 1, den |-> 2 ]
  /\ ChartAccuracy("White") = [ num |-> 1, den |-> 2 ]

\* Sum of the strictly positive losses of the records with index in S.
RECURSIVE PositiveLoss(_)
PositiveLoss(S) ==
  IF S = {} THEN 0
  ELSE LET i == CHOOSE j \in S : TRUE
           loss == ain[i].classification.cp_loss
       IN  (IF loss > 0 THEN loss ELSE 0) + PositiveLoss(S \ {i})

ReportedAcpl(player) ==
  IF player = "White" THEN aout.acpl_data.white_acpl
  ELSE aout.acpl_data.black_acpl

\* C16: a player's average centipawn loss is the sum of that player's
\* strictly positive losses over the number of all that player's moves;
\* negative losses add nothing and a player without moves gets 0.
C16_AcplFormula ==
  \A player \in Players :
    LET a == ReportedAcpl(player)
    IN  /\ a.den > 0
        /\ IF Mine(player) = {} THEN a.num = 0
           ELSE a.num * Cardinality(Mine(player))
                  = PositiveLoss(Mine(player)) * a.den

\* C16 witness: White lost 30 centipawns with one move and gained 300 with
\* the other, Black lost 270 with one move; the averages are 30 / 2 and
\* 270 / 1.
C16_GainNotSubtracted ==
  /\ Len(ain) = 3
  /\ ain[1].classification.cp_loss = 30
  /\ ain[3].classification.cp_loss = -300
  /\ ain[2].classification.cp_loss = 270
  /\ ReportedAcpl("White") = [ num |-> 30, den |-> 2 ]
  /\ ReportedAcpl("Black") = [ num |-> 270, den |-> 1 ]

\* C17: running the aggregator twice on the same records gives the same
\* figures and changes nothing.  The aggregator reads only its arguments,
\* so its runs are evaluations of one operator: no formula.

\* --------------------------------------------- claims on the call sequence
\* C18: a game of n plies is analysed with exactly 2n evaluator calls, one
\* after the other: for each ply the position before the move, then,
\* with the move applied, the position after it, then the next ply.
C18_TwoCallsPerPly ==
  /\ Len(calls) = 2 * idx + (IF pc = "after" THEN 1 ELSE 0)
  /\ Asked => ncalls = Len(calls)
  /\ ret = "records" => Len(calls) = 2 * total_moves
  /\ \A j \in 1..Len(calls) :
       LET k == (j + 1) \div 2
       IN  /\ calls[j].ply = k
           /\ calls[j].phase = IF j % 2 = 1 THEN "before" ELSE "after"
           /\ calls[j].pushed = IF j % 2 = 1 THEN k - 1 ELSE k
           /\ calls[j].side = IF calls[j].pushed % 2 = 0 THEN WHITE ELSE BLACK

\* C18 witness: a game of two plies analysed with four engine calls.
C18_FourCallsForTwoPlies ==
  /\ ret = "records"
  /\ Asked
  /\ total_moves = 2
  /\ ncalls = 4
  /\ Len(calls) = 4

\* ------------------------------------------ claims on best and brilliant
\* C19: a move that is the engine's reported best move is graded best
\* whatever the evaluations; a game of one such move is stored as one
\* record graded best with White's accuracy at 100%.
C19_EngineChoiceIsBest ==
  /\ \A k \in 1..Len(analysis) :
       (hist[k].okB /\ Asked /\ hist[k].best = moves[k])
         => /\ analysis[k].best_move = moves[k]
            /\ analysis[k].classification.type = "best"
  /\ ( /\ ui = "success"
       /\ Len(game_analysis) = 1
       /\ game_analysis[1].best_move = game_analysis[1].move )
     => /\ game_analysis[1].classification.type = "best"
        /\ performance_metrics[1].white_accuracy = [ num |-> 1, den |-> 1 ]

\* C19 witness: a stored game of one move, the engine's choice, with a
\* loss of -60 centipawns (brilliant for any other move).
C19_OneBestMoveGame ==
  /\ ui = "success"
  /\ Len(game_analysis) = 1
  /\ game_analysis[1].best_move = game_analysis[1].move
  /\ game_analysis[1].classification.cp_loss = -60
  /\ game_analysis[1].classification.type = "best"
  /\ performance_metrics[1].white_accuracy = [ num |-> 1, den |-> 1 ]

\* How much the evaluation handed to the classifier rose for the mover.
Gain == ForMover(cin.ea, cin.color) - ForMover(cin.eb, cin.color)

Loss == 0 - Gain

C22_NormalisedLossCutToInt ==
  cin.called =>
    LET float == centipawn_loss(cin.eb, cin.ea, cin.color)
    IN  /\ float.d = Loss
        /\ cout.cp_loss \in { Loss - 1, Loss, Loss + 1 }
        /\ Loss >= 0 => (cout.cp_loss >= 0 /\ cout.cp_loss <= Loss)
        /\ Loss <= 0 => (cout.cp_loss <= 0 /\ cout.cp_loss >= Loss)
        /\ (Lt(float, 1) /\ ~Lt(float, -1) /\ ~(float.d = -1 /\ float.j = 0))
             => cout.cp_loss = 0

\* C22 witness: Black moves from 3.00 to 3.01 for White; Black's loss is
\* computed as 0.9999999999999787 centipawns and reported as 0.
C22_JitterReportedAsZero ==
  /\ cin.called
  /\ cin.color = BLACK
  /\ cin.eb = 300
  /\ cin.ea = 301
  /\ Loss = 1
  /\ cout.cp_loss = 0

\* -------------------------------------------- claims on the motif detector
\* The side that played the latest move on the board.
Mover == ~mturn

Tags(motifs) == { motifs[i] : i \in 1..Len(motifs) }

\* C26: a move is tagged capture if and only if its destination square
\* held an enemy piece in the position before the move; a quiet move to
\* an empty square is never tagged capture.
C26_CaptureIffEnemyOnTarget ==
  mmove # <<>> =>
    LET to_piece == mprev[mmove[1].to_square]
    IN  "capture" \in Tags(mout)
          <=> (to_piece # Empty /\ to_piece[1].color # Mover)

\* ------------------------------------------------ claims on the game phases
\* The figure acc is the accuracy formula applied to the records with
\* index in bucket.
IsAccuracyOf(acc, bucket) ==
  /\ acc.den > 0
  /\ IF bucket = {} THEN acc.num = 0
     ELSE acc.num * Cardinality(bucket)
            = Cardinality({ i \in bucket :
                  ain[i].classification.type \in AccurateNamed }) * acc.den

\* The records with move_number in lo..hi.
Plies(lo, hi) ==
  { i \in 1..Len(ain) : lo <= ain[i].move_number /\ ain[i].move_number <= hi }

RecordsInGameOrder ==
  /\ Len(analysis) = idx
  /\ \A k \in 1..Len(analysis) :
       /\ analysis[k].move_number = k
       /\ analysis[k].move = moves[k]
       /\ analysis[k].player = IF k % 2 = 1 THEN "White" ELSE "Black"
  /\ ret = "records" => Len(analysis) = total_moves

\* C24: the analyzer appends exactly one record per ply, in game order,
\* numbered by ply with the players alternating; records are never
\* modified or removed, and the report stored at the end is the list, so
\* the list is a prefix of the final report throughout the loop.
C24_AppendOnlyRecords ==
  [][ /\ IsPrefix(analysis, analysis')
      /\ Len(analysis') <= Len(analysis) + 1
      /\ RecordsInGameOrder'
      /\ game_analysis' # game_analysis => game_analysis' = analysis
    ]_vars

\* C24 witness: a stored report of two records, White's ply 1 and Black's
\* ply 2.
C24_TwoRecordsStored ==
  /\ ui = "success"
  /\ Len(game_analysis) = 2
  /\ game_analysis[1].move_number = 1
  /\ game_analysis[1].player = "White"
  /\ game_analysis[2].move_number = 2
  /\ game_analysis[2].player = "Black"
  /\ game_analysis = analysis

\* C25: progress is reported once per ply, after the ply's record has been
\* appended: the k-th report is k / n and is not issued before record k
\* exists.
C25_ProgressAfterRecord ==
  /\ Len(progress) <= Len(analysis)
  /\ \A k \in 1..Len(progress) : progress[k] = << k, total_moves >>

\* ----------------------------------------- claims on the shared engine
\* The sessions whose thread is inside engine.analyse.
InFlight == { s \in Sessions : spc[s] = "analyse" }

\* C27: the analyses of sessions that use the one cached engine are
\* serialized: at most one engine evaluation call is in flight at any
\* time.
C27_OneCallInFlight == Cardinality(InFlight) <= 1

\* ------------------------------------------- claims on the stored metrics
\* The percentages of the stored performance metrics, as fractions of 100.
StoredPercentages ==
  LET m == performance_metrics[1]
  IN  { m.accuracy, m.white_accuracy, m.black_accuracy,
        m.tactical_sharpness, m.consistency, m.opening_score,
        m.middlegame_score, m.endgame_score }

\* C28: every percentage of the performance metrics of a non-empty record
\* sequence lies between 0 and 100.
C28_PercentagesWithin0And100 ==
  performance_metrics # <<>> =>
    \A f \in StoredPercentages :
      /\ f.den > 0
      /\ 0 <= f.num
      /\ f.num <= f.den

\* C29: the six counts of the move-type histogram add up to the number of
\* records: no record has a type outside the keys of the histogram.
C29_HistogramPartitions ==
  performance_metrics # <<>> =>
    LET move_stats == performance_metrics[1].move_stats
    IN  /\ DOMAIN move_stats = Grades6
        /\ move_stats.brilliant + move_stats.best + move_stats.good
             + move_stats.inaccuracy + move_stats.mistake
             + move_stats.blunder = Len(game_analysis)
        /\ \A k \in 1..Len(game_analysis) :
             game_analysis[k].classification.type \in DOMAIN move_stats
        /\ \A g \in Grades6 :
             move_stats[g] = Cardinality({ k \in 1..Len(game_analysis) :
                               game_analysis[k].classification.type = g })

\* C29 witness: a stored game of a brilliant move and a blunder.
C29_BrilliantAndBlunderCounted ==
  /\ ui = "success"
  /\ Len(game_analysis) = 2
  /\ performance_metrics[1].move_stats.brilliant = 1
  /\ performance_metrics[1].move_stats.blunder = 1

\* A step of the handler that ends a press of the button.
PressEnds == pc # "done" /\ pc' = "done"

\* The presses so far that ended with an analysis shown.
Successes == Cardinality({ k \in DOMAIN outcomes : outcomes[k] = "success" })

\* C30: over any sequence of presses of Analyze, a press that ends without
\* records leaves the stored analysis, opening, motifs, performance data
\* and the profile counters unchanged; a press that ends with records
\* stores them, adds 1 to games_analyzed and the number of motif entries
\* to total_tactics_found; no other step touches the stored data; hence
\* games_analyzed is always the number of successful analyses so far.
C30_FailedPressKeepsSuccessfulPressCounts ==
  /\ [][ /\ ~PressEnds => UNCHANGED svars
         /\ PressEnds /\ analysis' = <<>> => UNCHANGED svars
         /\ PressEnds /\ analysis' # <<>> =>
              /\ game_analysis' = analysis'
              /\ opening_analysis' = detect_opening(move_list')
              /\ session_tactical_motifs' = tactical_motifs'
              /\ game_pgn' = pgn_input'
              /\ performance_metrics' =
                    generate_comprehensive_report(analysis', tactical_motifs')
              /\ games_analyzed' = games_analyzed + 1
              /\ total_tactics_found' =
                    total_tactics_found + Len(tactical_motifs') ]_vars
  /\ [](games_analyzed = Successes)

\* A two-ply game was analysed, then a press with text holding no move
\* failed: the first game's records and counts are still stored.
C30_FailedAfterSuccessful ==
  /\ outcomes = << "success", "error" >>
  /\ pc = "done"
  /\ Len(game_analysis) = 2
  /\ games_analyzed = 1
  /\ total_tactics_found = 2
  /\ performance_metrics # <<>>

====
